---- MODULE Spec2Model ----
(***************************************************************************)
(* A model of the HTTP server of HTTP.py: the HTTP_Message parser and      *)
(* serializer, the HTTP_Server request router and handlers, and the        *)
(* listener/responder pair joined by a multiprocessing.Queue(10).          *)
(*                                                                         *)
(* A Python str is a sequence of code points, a Python bytes object a      *)
(* sequence of integers 0..255.  A dict is the sequence of its             *)
(* <<key, value>> pairs in insertion order.  A call returns a record       *)
(* [raised, value]: raised is the name of the exception it raised, or      *)
(* NoException.                                                            *)
(*                                                                         *)
(* An operator that models a Python function binds its arguments the way   *)
(* a call does: F(a_) == CHOOSE result \in {body : a \in {a_}} : TRUE      *)
(* evaluates the argument once and the body on its value, so the value of  *)
(* F(a_) is the value of body with a_ for a.                               *)
(***************************************************************************)
EXTENDS Integers, Sequences, FiniteSets, TLC

VARIABLES
    pc_l,        \* listener (_get_requests): "accept", "recv", "put"
    nconn,       \* number of connections accepted so far
    clientsocket,\* listener's clientsocket (0 before the first accept)
    data,        \* listener's data, the bytes recv returned
    queue,       \* request_queue: sequence of <<clientsocket, data>>
    pc_r,        \* responder (_process_requests): "poll", "try", "send", "close", "dead"
    cur,         \* responder's (clientsocket, data) taken by queue.get()
    request,     \* responder's request: [bound, msg]
    response,    \* responder's response: [bound, msg], unbound before the first assignment
    exc,         \* the exception pending while the finally clause runs, then the
                 \* one that ended the responder
    socks,       \* per connection: [events: the operations on the socket and on
                 \* its queue entry, in order; sent: the byte strings sent on it]
    puts,        \* the connections in the order queue.put took them
    gets         \* the connections in the order queue.get returned them

vars == <<pc_l, nconn, clientsocket, data, queue, pc_r, cur, request, response, exc, socks,
          puts, gets>>

-----------------------------------------------------------------------------
(* Text and bytes *)

NoException == "NoException"

\* Python's None where a str or bytes value is expected
None == <<-1>>

Return(v) == [raised |-> NoException, value |-> v]
Raise(e) == [raised |-> e, value |-> None]

Min(set_) ==
    CHOOSE result \in {
        CHOOSE m \in set : \A k \in set : m <= k
      : set \in {set_}} : TRUE

\* The printable ASCII characters, code points 32..126, in order.  The double
\* quote (34), the backslash (92) and the backtick (96) occur in no literal
\* of the source; a space holds their places.
AsciiTable == " ! #$%&'()*+,-./0123456789:;<=>?@ABCDEFGHIJKLMNOPQRSTUVWXYZ[ ]^_ abcdefghijklmnopqrstuvwxyz{|}~"

\* ord(c) of a printable character: its first place in the table
OrdTable ==
    [c \in {SubSeq(AsciiTable, i, i) : i \in 1..Len(AsciiTable)} |->
        31 + (CHOOSE i \in 1..Len(AsciiTable) :
                /\ SubSeq(AsciiTable, i, i) = c
                /\ \A j \in 1..(i - 1) : SubSeq(AsciiTable, j, j) # c)]

Ord(c) == OrdTable[c]

\* A string literal of the source as a sequence of code points.
S(lit) == [i \in 1..Len(lit) |-> Ord(SubSeq(lit, i, i))]

CRLF == <<13, 10>>

\* s[from:] with a 0-based Python index from >= 0
SliceFrom(s_, from_) ==
    CHOOSE result \in {
        SubSeq(s, from + 1, Len(s))
      : s \in {s_}, from \in {from_}} : TRUE

\* str.find: the 1-based position of the first occurrence of sep in s, or 0
Find(s_, sep_) ==
    CHOOSE result \in {
        LET hits == {j \in 1..(Len(s) - Len(sep) + 1) : SubSeq(s, j, j + Len(sep) - 1) = sep}
        IN  IF hits = {} THEN 0 ELSE Min(hits)
      : s \in {s_}, sep \in {sep_}} : TRUE

\* str.split(sep) for a non-empty separator: always at least one piece
RECURSIVE Split(_, _)
Split(s_, sep_) ==
    CHOOSE result \in {
        LET j == Find(s, sep)
        IN  IF j = 0 THEN <<s>>
            ELSE <<SubSeq(s, 1, j - 1)>> \o Split(SubSeq(s, j + Len(sep), Len(s)), sep)
      : s \in {s_}, sep \in {sep_}} : TRUE

\* decimal digits of a natural number: str(n)
RECURSIVE Str(_)
Str(n) == IF n < 10 THEN <<48 + n>> ELSE Str(n \div 10) \o <<48 + (n % 10)>>

(* UTF-8, as bytes.decode("utf-8") and bytes(text, "utf-8") do it *)

IsCont(b) == b \in 128..191

\* the values the second byte of a 3- or 4-byte sequence may take
Second(b1) ==
    CASE b1 = 224 -> 160..191
      [] b1 = 237 -> 128..159
      [] b1 = 240 -> 144..191
      [] b1 = 244 -> 128..143
      [] OTHER    -> 128..191

\* length of the well-formed sequence that starts at b[i], 0 if there is none
Utf8Len(b_, i_) ==
    CHOOSE result \in {
        LET n == Len(b) IN
        IF b[i] < 128 THEN 1
        ELSE IF b[i] \in 194..223 /\ i + 1 <= n /\ IsCont(b[i+1]) THEN 2
        ELSE IF b[i] \in 224..239 /\ i + 2 <= n /\ b[i+1] \in Second(b[i])
                /\ IsCont(b[i+2]) THEN 3
        ELSE IF b[i] \in 240..244 /\ i + 3 <= n /\ b[i+1] \in Second(b[i])
                /\ IsCont(b[i+2]) /\ IsCont(b[i+3]) THEN 4
        ELSE 0
      : b \in {b_}, i \in {i_}} : TRUE

Utf8Point(b_, i_, k_) ==
    CHOOSE result \in {
        CASE k = 1 -> b[i]
          [] k = 2 -> (b[i] - 192) * 64 + (b[i+1] - 128)
          [] k = 3 -> (b[i] - 224) * 4096 + (b[i+1] - 128) * 64 + (b[i+2] - 128)
          [] k = 4 -> (b[i] - 240) * 262144 + (b[i+1] - 128) * 4096
                        + (b[i+2] - 128) * 64 + (b[i+3] - 128)
      : b \in {b_}, i \in {i_}, k \in {k_}} : TRUE

RECURSIVE Utf8Valid(_, _)
Utf8Valid(b_, i_) ==
    CHOOSE result \in {
        IF i > Len(b) THEN TRUE
        ELSE LET k == Utf8Len(b, i) IN k > 0 /\ Utf8Valid(b, i + k)
      : b \in {b_}, i \in {i_}} : TRUE

\* the text of well-formed bytes
RECURSIVE Utf8Text(_, _)
Utf8Text(b_, i_) ==
    CHOOSE result \in {
        IF i > Len(b) THEN <<>>
        ELSE LET k == Utf8Len(b, i) IN <<Utf8Point(b, i, k)>> \o Utf8Text(b, i + k)
      : b \in {b_}, i \in {i_}} : TRUE

\* bytes.decode("utf-8"): the text, or UnicodeDecodeError; ASCII bytes are
\* their own code points
decode(b_) ==
    CHOOSE result \in {
        IF \A i \in 1..Len(b) : b[i] < 128 THEN Return(b)
        ELSE IF Utf8Valid(b, 1) THEN Return(Utf8Text(b, 1)) ELSE Raise("UnicodeDecodeError")
      : b \in {b_}} : TRUE

\* the bytes of one code point
EncodePoint(c) ==
    IF c < 128 THEN <<c>>
    ELSE IF c < 2048 THEN <<192 + (c \div 64), 128 + (c % 64)>>
    ELSE IF c < 65536 THEN
        <<224 + (c \div 4096), 128 + ((c \div 64) % 64), 128 + (c % 64)>>
    ELSE <<240 + (c \div 262144), 128 + ((c \div 4096) % 64),
           128 + ((c \div 64) % 64), 128 + (c % 64)>>

\* bytes(text, "utf-8"): the bytes of the code points, in order
RECURSIVE encode(_)
encode(text_) ==
    CHOOSE result \in {
        IF \A i \in 1..Len(text) : text[i] < 128 THEN text
        ELSE IF Len(text) = 1 THEN EncodePoint(text[1])
        ELSE LET half == Len(text) \div 2
             IN  encode(SubSeq(text, 1, half)) \o encode(SubSeq(text, half + 1, Len(text)))
      : text \in {text_}} : TRUE

-----------------------------------------------------------------------------
(* Module constants *)

HTTP_VERSION == S("HTTP/1.1")

STATUS_CODES ==
    [status \in {"OK", "Bad Request", "Not Found", "Not Implemented"} |->
        CASE status = "OK"              -> S("200 OK")
          [] status = "Bad Request"     -> S("400 Bad Request")
          [] status = "Not Found"       -> S("404 Not Found")
          [] status = "Not Implemented" -> S("501 Not Implemented")]

METHODS == <<S("OPTIONS"), S("GET"), S("HEAD"), S("POST"), S("PUT"), S("DELETE"),
             S("TRACE"), S("CONNECT")>>

IMPLEMENTED_METHODS == <<S("GET"), S("HEAD")>>

\* x in list
In(x_, list_) ==
    CHOOSE result \in {
        \E i \in 1..Len(list) : list[i] = x
      : x \in {x_}, list \in {list_}} : TRUE

-----------------------------------------------------------------------------
(* class HTTP_Message *)

\* dict[key] = value: a present key keeps its place, a new key goes last
DictSet(dict_, key_, value_) ==
    CHOOSE result \in {
        IF \E i \in 1..Len(dict) : dict[i][1] = key
        THEN [i \in 1..Len(dict) |-> IF dict[i][1] = key THEN <<key, value>> ELSE dict[i]]
        ELSE Append(dict, <<key, value>>)
      : dict \in {dict_}, key \in {key_}, value \in {value_}} : TRUE

\* dict[key] of a present key
DictGet(dict_, key_) ==
    CHOOSE result \in {
        dict[CHOOSE i \in 1..Len(dict) : dict[i][1] = key][2]
      : dict \in {dict_}, key \in {key_}} : TRUE

\* HTTP_Message(): the fields __init__ sets
HTTP_Message == [request_line |-> <<>>, status_line |-> None, headers |-> <<>>, body |-> <<>>]

\* the loop over the header lines: (field, value) = line.split(": ")
RECURSIVE ParseHeaders(_, _)
ParseHeaders(lines_, headers_) ==
    CHOOSE result \in {
        IF lines = <<>> THEN Return(headers)
        ELSE LET pieces == Split(Head(lines), S(": "))
             IN  IF Len(pieces) # 2 THEN Raise("ValueError")
                 ELSE ParseHeaders(Tail(lines), DictSet(headers, pieces[1], pieces[2]))
      : lines \in {lines_}, headers \in {headers_}} : TRUE

\* parse_request without the test of the length
Message_parse_request_no_length_test(bytestring_) ==
    CHOOSE result \in {
        LET filled(request_line_parts, parsed, http_message_line) ==
                IF Len(request_line_parts) < 3 THEN Raise("IndexError")
                ELSE IF parsed.raised # NoException THEN parsed
                ELSE Return([HTTP_Message EXCEPT
                               !.request_line = <<<<"Method", request_line_parts[1]>>,
                                                  <<"Request-URI", request_line_parts[2]>>,
                                                  <<"HTTP-Version", request_line_parts[3]>>>>,
                               !.headers = parsed.value,
                               !.body = http_message_line])
            split(request_line, headers, http_message_line) ==
                filled(Split(request_line, S(" ")), ParseHeaders(headers, <<>>),
                       http_message_line)
            lined(lines) == split(lines[1], SubSeq(lines, 2, Len(lines) - 2), lines[Len(lines)])
            decoded(req) ==
                IF req.raised # NoException THEN req ELSE lined(Split(req.value, CRLF))
        IN  decoded(decode(bytestring))
      : bytestring \in {bytestring_}} : TRUE

\* HTTP_Message(data), that is HTTP_Message.parse_request(bytestring)
Message_parse_request(bytestring_) ==
    CHOOSE result \in {
        IF Len(bytestring) < 16 THEN Raise("HTTPBadRequest")
        ELSE LET filled(request_line_parts, parsed, http_message_line) ==
                     IF Len(request_line_parts) < 3 THEN Raise("IndexError")
                     ELSE IF parsed.raised # NoException THEN parsed
                     ELSE Return([HTTP_Message EXCEPT
                                    !.request_line = <<<<"Method", request_line_parts[1]>>,
                                                       <<"Request-URI", request_line_parts[2]>>,
                                                       <<"HTTP-Version", request_line_parts[3]>>>>,
                                    !.headers = parsed.value,
                                    !.body = http_message_line])
                 split(request_line, headers, http_message_line) ==
                     filled(Split(request_line, S(" ")), ParseHeaders(headers, <<>>),
                            http_message_line)
                 lined(lines) == split(lines[1], SubSeq(lines, 2, Len(lines) - 2), lines[Len(lines)])
                 decoded(req) ==
                     IF req.raised # NoException THEN req ELSE lined(Split(req.value, CRLF))
             IN  decoded(decode(bytestring))
      : bytestring \in {bytestring_}} : TRUE

\* datetime.now().strftime("%a, %d %b %Y %H:%M:%S "): the clock is read once
Now == S("Thu, 05 Nov 2026 20:00:00 ")

\* HTTP_Message.create_response(status)
create_response(msg_, status_) ==
    CHOOSE result \in {
        LET h1 == DictSet(msg.headers, S("Connection"), S("close"))
            h2 == DictSet(h1, S("Server"), S("PythonServer/1.0 (Windows 10)"))
            h3 == DictSet(h2, S("Date"), Now \o S("EST"))
            h4 == DictSet(h3, S("Content-Length"), Str(Len(msg.body)))
        IN  [msg EXCEPT !.status_line = HTTP_VERSION \o S(" ") \o STATUS_CODES[status],
                        !.headers = h4]
      : msg \in {msg_}, status \in {status_}} : TRUE

\* the header loop of to_bytestring; str + None raises TypeError
RECURSIVE HeaderLines(_)
HeaderLines(headers_) ==
    CHOOSE result \in {
        IF headers = <<>> THEN Return(<<>>)
        ELSE LET field == Head(headers)[1]
                 value == Head(headers)[2]
                 rest == HeaderLines(Tail(headers))
             IN  IF field = None \/ value = None THEN Raise("TypeError")
                 ELSE IF rest.raised # NoException THEN rest
                 ELSE Return(field \o S(": ") \o value \o CRLF \o rest.value)
      : headers \in {headers_}} : TRUE

\* HTTP_Message.to_bytestring()
to_bytestring(msg_) ==
    CHOOSE result \in {
        IF msg.status_line = None THEN Raise("TypeError")
        ELSE LET lines == HeaderLines(msg.headers) IN
        IF lines.raised # NoException THEN lines
        ELSE LET ret == encode(msg.status_line \o CRLF \o lines.value \o CRLF)
             IN  Return((IF msg.body # <<>> THEN ret \o msg.body ELSE ret) \o CRLF)
      : msg \in {msg_}} : TRUE

-----------------------------------------------------------------------------
(* The collaborators of HTTP_Server: urllib.parse, os, os.path, mimetypes *)

IsHex(c) == c \in (48..57) \cup (65..70) \cup (97..102)

HexValue(c) == IF c \in 48..57 THEN c - 48 ELSE IF c \in 65..70 THEN c - 55 ELSE c - 87

\* unquote_to_bytes over the text: an ASCII character or a %xx escape becomes
\* its byte, a malformed escape stays literal, a non-ASCII character c is
\* passed through as -c
RECURSIVE UnquoteUnits(_)
UnquoteUnits(s_) ==
    CHOOSE result \in {
        IF s = <<>> THEN <<>>
        ELSE IF s[1] = 37 /\ Len(s) >= 3 /\ IsHex(s[2]) /\ IsHex(s[3])
             THEN <<16 * HexValue(s[2]) + HexValue(s[3])>> \o UnquoteUnits(SubSeq(s, 4, Len(s)))
        ELSE IF s[1] >= 128 THEN <<-s[1]>> \o UnquoteUnits(Tail(s))
        ELSE <<s[1]>> \o UnquoteUnits(Tail(s))
      : s \in {s_}} : TRUE

\* the bytes of units[i..] up to the next passed-through character
RECURSIVE ByteRun(_, _)
ByteRun(units_, i_) ==
    CHOOSE result \in {
        IF i > Len(units) \/ units[i] < 0 THEN <<>> ELSE <<units[i]>> \o ByteRun(units, i + 1)
      : units \in {units_}, i \in {i_}} : TRUE

\* how many bytes an ill-formed sequence at b[i] takes: the lead byte and the
\* continuation bytes that may follow it
BadLen(b_, i_) ==
    CHOOSE result \in {
        LET need == IF b[i] \in 194..223 THEN 2 ELSE IF b[i] \in 224..239 THEN 3
                    ELSE IF b[i] \in 240..244 THEN 4 ELSE 1
            second == need >= 2 /\ i + 1 <= Len(b) /\ b[i+1] \in Second(b[i])
            third == second /\ need >= 3 /\ i + 2 <= Len(b) /\ IsCont(b[i+2])
        IN  IF third THEN 3 ELSE IF second THEN 2 ELSE 1
      : b \in {b_}, i \in {i_}} : TRUE

\* bytes.decode("utf-8", "replace"): U+FFFD for every ill-formed sequence
RECURSIVE DecodeReplace(_, _)
DecodeReplace(b_, i_) ==
    CHOOSE result \in {
        IF i > Len(b) THEN <<>>
        ELSE LET k == Utf8Len(b, i)
             IN  IF k > 0 THEN <<Utf8Point(b, i, k)>> \o DecodeReplace(b, i + k)
                 ELSE <<65533>> \o DecodeReplace(b, i + BadLen(b, i))
      : b \in {b_}, i \in {i_}} : TRUE

RECURSIVE DecodeUnits(_, _)
DecodeUnits(units_, i_) ==
    CHOOSE result \in {
        IF i > Len(units) THEN <<>>
        ELSE IF units[i] < 0 THEN <<-units[i]>> \o DecodeUnits(units, i + 1)
        ELSE LET run == ByteRun(units, i)
             IN  DecodeReplace(run, 1) \o DecodeUnits(units, i + Len(run))
      : units \in {units_}, i \in {i_}} : TRUE

\* urllib.parse.unquote(string)
unquote(string) == DecodeUnits(UnquoteUnits(string), 1)

\* os.path.join(a, b) of posixpath
join(a_, b_) ==
    CHOOSE result \in {
        IF b # <<>> /\ b[1] = 47 THEN b
        ELSE IF a = <<>> \/ a[Len(a)] = 47 THEN a \o b
        ELSE a \o S("/") \o b
      : a \in {a_}, b \in {b_}} : TRUE

File(content) == [kind |-> "file", content |-> content, entries |-> <<>>]
Dir(entries) == [kind |-> "dir", content |-> <<>>, entries |-> entries]
Missing == [kind |-> "missing", content |-> <<>>, entries |-> <<>>]

\* The file system the server runs on.  The web root is /srv/www; /srv/key.txt
\* and /etc/passwd lie outside it.  A directory lists its entries in the
\* order os.listdir returns them.
FileSystem ==
    Dir(<<
      <<S("etc"), Dir(<< <<S("passwd"), File(S("root:x:0"))>> >>)>>,
      <<S("srv"), Dir(<<
        <<S("key.txt"), File(S("secret"))>>,
        <<S("www"), Dir(<<
          <<S("index.html"), File(S("<h1>home</h1>"))>>,
          <<S("a.txt"), File(S("hello"))>>,
          <<S("a b.txt"), File(S("a b"))>>,
          <<S("README"), File(S("readme"))>>,
          <<S("none.txt"), File(<<>>)>>,
          <<S("pack.tar.gz"), File(<<31, 139, 8>>)>>,
          <<S("docs"), Dir(<< <<S("index.htm"), File(S("docs"))>> >>)>>,
          <<S("both"), Dir(<< <<S("index.htm"), File(S("htm"))>>,
                             <<S("index.html"), File(S("html"))>>,
                             <<S("more.txt"), File(S("more"))>> >>)>>,
          <<S("empty"), Dir(<<>>)>>,
          <<S("pub"), Dir(<< <<S("x.txt"), File(S("x"))>>,
                            <<S("sub"), Dir(<<>>)>>,
                            <<S("y.dat"), File(S("y"))>> >>)>>
        >>)>>
      >>)>>
    >>)

\* HTTP_Server.set_web_root(path): the normalized path of the web root
web_root == S("/srv/www")

Child(node_, name_) ==
    CHOOSE result \in {
        IF \E i \in 1..Len(node.entries) : node.entries[i][1] = name
        THEN node.entries[CHOOSE i \in 1..Len(node.entries) : node.entries[i][1] = name][2]
        ELSE Missing
      : node \in {node_}, name \in {name_}} : TRUE

RECURSIVE NodeAt(_, _)
NodeAt(node_, names_) ==
    CHOOSE result \in {
        IF names = <<>> THEN node ELSE NodeAt(Child(node, Head(names)), Tail(names))
      : node \in {node_}, names \in {names_}} : TRUE

\* path resolution as the kernel does it, from the directory at stack under root: every
\* component, "." and ".." and the empty one after a trailing slash included,
\* is looked up in a directory
RECURSIVE Walk(_, _, _)
Walk(root_, parts_, stack_) ==
    CHOOSE result \in {
        IF parts = <<>> THEN NodeAt(root, stack)
        ELSE IF NodeAt(root, stack).kind # "dir" THEN Missing
        ELSE IF Head(parts) = <<>> \/ Head(parts) = S(".") THEN Walk(root, Tail(parts), stack)
        ELSE IF Head(parts) = S("..")
             THEN Walk(root, Tail(parts), SubSeq(stack, 1, Len(stack) - 1))
        ELSE Walk(root, Tail(parts), Append(stack, Head(parts)))
      : root \in {root_}, parts \in {parts_}, stack \in {stack_}} : TRUE

\* os.stat(path) of an absolute path
stat(path_) ==
    CHOOSE result \in {
        IF path = <<>> THEN Missing ELSE Walk(FileSystem, Split(path, S("/")), <<>>)
      : path \in {path_}} : TRUE

isdir(path) == stat(path).kind = "dir"
isfile(path) == stat(path).kind = "file"

\* open(path, 'rb').read()
read(path) == stat(path).content

\* os.listdir(path)
listdir(path_) ==
    CHOOSE result \in {
        LET e == stat(path).entries IN [i \in 1..Len(e) |-> e[i][1]]
      : path \in {path_}} : TRUE

\* [i for i in names if keep(i)]
RECURSIVE OnlyFiles(_, _)
OnlyFiles(path_, names_) ==
    CHOOSE result \in {
        IF names = <<>> THEN <<>>
        ELSE (IF isfile(join(path, Head(names))) THEN <<Head(names)>> ELSE <<>>)
             \o OnlyFiles(path, Tail(names))
      : path \in {path_}, names \in {names_}} : TRUE

RECURSIVE OnlyDirs(_, _)
OnlyDirs(path_, names_) ==
    CHOOSE result \in {
        IF names = <<>> THEN <<>>
        ELSE (IF isdir(join(path, Head(names))) THEN <<Head(names)>> ELSE <<>>)
             \o OnlyDirs(path, Tail(names))
      : path \in {path_}, names \in {names_}} : TRUE

\* posixpath.splitext(p): <<root, ext>>; the extension starts at the last
\* dot of the last component, leading dots of the component apart
splitext(p_) ==
    CHOOSE result \in {
        LET Last(set) == IF set = {} THEN 0 ELSE CHOOSE i \in set : \A j \in set : j <= i
            cut(dot) ==
                IF dot = 0 THEN <<p, <<>>>> ELSE <<SubSeq(p, 1, dot - 1), SubSeq(p, dot, Len(p))>>
            dotted(base) ==
                cut(Last({i \in base..Len(p) : p[i] = 46 /\ \E j \in base..(i - 1) : p[j] # 46}))
        IN  dotted(1 + Last({i \in 1..Len(p) : p[i] = 47}))
      : p \in {p_}} : TRUE

\* the entries of mimetypes.encodings_map and mimetypes.types_map that the
\* names of FileSystem reach
encodings_map(ext) == IF ext = S(".gz") THEN S("gzip") ELSE None

types_map(ext_) ==
    CHOOSE result \in {
        IF ext \in {S(".html"), S(".htm")} THEN S("text/html")
        ELSE IF ext = S(".txt") THEN S("text/plain")
        ELSE IF ext = S(".tar") THEN S("application/x-tar")
        ELSE None
      : ext \in {ext_}} : TRUE

\* mimetypes.guess_type(url): <<type, encoding>>
guess_type(url) ==
    LET typed(base, ext, encoding) ==
            <<types_map(IF encoding # None THEN splitext(base)[2] ELSE ext), encoding>>
        encoded(first) == typed(first[1], first[2], encodings_map(first[2]))
    IN  encoded(splitext(url))

-----------------------------------------------------------------------------
(* class HTTP_Server: the handlers *)

\* HTTP_Server.serve_error(type, method_head)
serve_error(type_, method_head_) ==
    CHOOSE result \in {
        LET ret == HTTP_Message
            filled == IF ~method_head
                      THEN [ret EXCEPT
                              !.body = encode(S("<html><body><h1>") \o STATUS_CODES[type]
                                              \o S("</h1></body></html>")),
                              !.headers = DictSet(ret.headers, S("Content-Type"), S("text/html"))]
                      ELSE ret
        IN  create_response(filled, type)
      : type \in {type_}, method_head \in {method_head_}} : TRUE

\* serve_file with the test of method_head inverted
serve_file_head_inverted(file_path_, method_head_) ==
    CHOOSE result \in {
        LET ret == HTTP_Message
            filled == IF method_head THEN [ret EXCEPT !.body = ret.body \o read(file_path)] ELSE ret
            encoded(typed, encoding) ==
                IF encoding # None THEN DictSet(typed, S("Content-Encoding"), encoding) ELSE typed
            typed(created, guess) ==
                [created EXCEPT
                   !.headers = encoded(DictSet(created.headers, S("Content-Type"), guess[1]),
                                       guess[2])]
        IN  typed(create_response(filled, "OK"), guess_type(file_path))
      : file_path \in {file_path_}, method_head \in {method_head_}} : TRUE

\* HTTP_Server.serve_file(file_path, method_head)
serve_file(file_path_, method_head_) ==
    CHOOSE result \in {
        LET ret == HTTP_Message
            filled == IF ~method_head THEN [ret EXCEPT !.body = ret.body \o read(file_path)] ELSE ret
            encoded(typed, encoding) ==
                IF encoding # None THEN DictSet(typed, S("Content-Encoding"), encoding) ELSE typed
            typed(created, guess) ==
                [created EXCEPT
                   !.headers = encoded(DictSet(created.headers, S("Content-Type"), guess[1]),
                                       guess[2])]
        IN  typed(create_response(filled, "OK"), guess_type(file_path))
      : file_path \in {file_path_}, method_head \in {method_head_}} : TRUE

\* "<p><a href='{}'>{}</a></p>".format(href, text) for every name
RECURSIVE Links(_, _, _)
Links(uri_, names_, suffix_) ==
    CHOOSE result \in {
        IF names = <<>> THEN <<>>
        ELSE S("<p><a href='") \o uri \o S("/") \o Head(names) \o S("'>")
             \o Head(names) \o suffix \o S("</a></p>") \o Links(uri, Tail(names), suffix)
      : uri \in {uri_}, names \in {names_}, suffix \in {suffix_}} : TRUE

\* HTTP_Server.serve_directory_listing(path, uri, method_head)
serve_directory_listing(path_, uri_, method_head_) ==
    CHOOSE result \in {
        LET response0 == HTTP_Message
            listed(files, dirs) ==
                IF Len(files) = 0 /\ Len(dirs) = 0
                THEN S("<p>This directory is empty.</p>")
                ELSE Links(uri, dirs, S("/")) \o Links(uri, files, <<>>)
            listing == listed(OnlyFiles(path, listdir(path)), OnlyDirs(path, listdir(path)))
            filled == IF ~method_head
                      THEN [response0 EXCEPT
                              !.body = encode(S("<html><body><h1>Index of: ") \o uri \o S("</h1>")
                                              \o listing \o S("</body></html>")),
                              !.headers = DictSet(response0.headers, S("Content-Type"),
                                                  S("text/html"))]
                      ELSE response0
        IN  create_response(filled, "OK")
      : path \in {path_}, uri \in {uri_}, method_head \in {method_head_}} : TRUE

\* the index file loop of http_method_get with index.htm tried first
IndexFile_htm_first(path_) ==
    CHOOSE result \in {
        IF isfile(join(path, S("index.htm"))) THEN join(path, S("index.htm"))
        ELSE IF isfile(join(path, S("index.html"))) THEN join(path, S("index.html"))
        ELSE None
      : path \in {path_}} : TRUE

\* the index file loop of http_method_get: the first of index.html and
\* index.htm that is a file, or None
IndexFile(path_) ==
    CHOOSE result \in {
        IF isfile(join(path, S("index.html"))) THEN join(path, S("index.html"))
        ELSE IF isfile(join(path, S("index.htm"))) THEN join(path, S("index.htm"))
        ELSE None
      : path \in {path_}} : TRUE

\* HTTP_Server.http_method_get(req, method_head)
http_method_get(req_, method_head_) ==
    CHOOSE result \in {
        LET indexed(path, uri, index) ==
                IF index = None THEN serve_directory_listing(path, uri, method_head)
                ELSE serve_file(index, method_head)
            served(uri, path) ==
                IF isdir(path) THEN Return(indexed(path, uri, IndexFile(path)))
                ELSE IF isfile(path) THEN Return(serve_file(path, method_head))
                ELSE Return(serve_error("Not Found", method_head))
            located(uri) == served(uri, join(web_root, SliceFrom(uri, 1)))
        IN  located(unquote(DictGet(req.request_line, "Request-URI")))
      : req \in {req_}, method_head \in {method_head_}} : TRUE

\* the parameters of def http_method_head(self, req), self apart
http_method_head_params == 1

\* HTTP_Server.http_method_head called with the arguments args: a call with
\* more arguments than parameters raises TypeError
http_method_head(args_) ==
    CHOOSE result \in {
        IF Len(args) # http_method_head_params THEN Raise("TypeError")
        ELSE http_method_get(args[1], TRUE)
      : args \in {args_}} : TRUE

\* parse_request with the test against METHODS left out
Server_parse_request_no_methods_test(req_) ==
    CHOOSE result \in {
        LET method == DictGet(req.request_line, "Method") IN
        IF ~In(method, IMPLEMENTED_METHODS) THEN Return(serve_error("Not Implemented", FALSE))
        ELSE IF method = S("GET") THEN http_method_get(req, FALSE)
        ELSE http_method_head(<<req, TRUE>>)
      : req \in {req_}} : TRUE

\* HTTP_Server.parse_request(req)
Server_parse_request(req_) ==
    CHOOSE result \in {
        LET method == DictGet(req.request_line, "Method") IN
        IF ~In(method, METHODS) THEN Return(serve_error("Bad Request", FALSE))
        ELSE IF ~In(method, IMPLEMENTED_METHODS) THEN Return(serve_error("Not Implemented", FALSE))
        ELSE IF method = S("GET") THEN http_method_get(req, FALSE)
        ELSE http_method_head(<<req, TRUE>>)  \* elif method == "HEAD": the one method left
      : req \in {req_}} : TRUE

-----------------------------------------------------------------------------
(* The requests clients send *)

Request(method_, uri_, headers_) ==
    CHOOSE result \in {
        encode(method \o S(" ") \o uri \o S(" HTTP/1.1") \o CRLF \o headers \o CRLF)
      : method \in {method_}, uri \in {uri_}, headers \in {headers_}} : TRUE

HostHeader == S("Host: h") \o CRLF

SentMethods == {S("GET"), S("HEAD"), S("TRACE"), S("PATCH")}

SentURIs ==
    {S("/"), S("/a.txt"), S("/a%20b.txt"), S("/README"), S("/none.txt"), S("/pack.tar.gz"),
     S("/docs"), S("/docs/index.htm"), S("/both"), S("/both/"), S("/empty"), S("/pub"),
     S("/nope"), S("/a.txt/"), S("/../key.txt"), S("/%2e%2e/key.txt"), S("//etc/passwd"),
     S("/.."), S("/%zz"), S("/caf") \o <<233>>}

WellFormedRequests == {Request(m, u, HostHeader) : m \in SentMethods, u \in SentURIs}

\* requests that are short, undecodable, or oddly framed
OddRequests ==
    {encode(S("GET / HTTP/1.1")),
     encode(S("GET / HTTP/1.1") \o CRLF),
     encode(S("GET /")) \o <<255>> \o encode(S(" HTTP/1.1") \o CRLF \o CRLF),
     encode(S("GET /index.html") \o CRLF \o CRLF),
     encode(S("GETGETGETGETGET") \o CRLF \o CRLF),
     encode(S("GET / HTTP/1.1 more") \o CRLF \o CRLF),
     Request(S("GET"), S("/"), S("Host") \o CRLF),
     Request(S("GET"), S("/"), S("Host:h") \o CRLF),
     Request(S("GET"), S("/"), S("Host: h: 80") \o CRLF),
     Request(S("GET"), S("/"), S("A: 1") \o CRLF \o S("A: 2") \o CRLF),
     encode(S("GET / HTTP/1.1") \o CRLF \o HostHeader),
     Request(S("GET"), S("/"), HostHeader) \o encode(S("body")),
     Request(S("get"), S("/a.txt"), HostHeader),
     Request(S("POST"), S("/a.txt"), HostHeader),
     Request(S("OPTIONS"), S("/nope"), HostHeader),
     Request(<<>>, S("/a.txt"), HostHeader)}

HandlerRequests == WellFormedRequests \cup OddRequests

\* the requests of the two-process runs
PipelineRequests ==
    {Request(S("GET"), S("/a.txt"), HostHeader),
     Request(S("GET"), S("/nope"), HostHeader),
     Request(S("HEAD"), S("/a.txt"), HostHeader),
     Request(S("GET"), S("/README"), HostHeader),
     encode(S("GET / HTTP/1.1")),
     encode(S("GET /index.html") \o CRLF \o CRLF)}

FloodRequests ==
    {Request(S("GET"), S("/a.txt"), HostHeader), Request(S("HEAD"), S("/a.txt"), HostHeader)}

-----------------------------------------------------------------------------
(* HTTP_Server.run: the listener and the responder *)

\* connections the clients of a two-process run open
MaxConns == 3

\* connections the clients open to fill the queue
FloodConns == 12

\* multiprocessing.Queue(10)
QueueSize == 10

\* clientsocket.recv(4096)
RecvSize == 4096

Init ==
    /\ pc_l = "accept"
    /\ nconn = 0
    /\ clientsocket = 0
    /\ data = <<>>
    /\ queue = <<>>
    /\ pc_r = "poll"
    /\ cur = [clientsocket |-> 0, data |-> <<>>]
    /\ request = [bound |-> FALSE, msg |-> HTTP_Message]
    /\ response = [bound |-> FALSE, msg |-> HTTP_Message]
    /\ exc = NoException
    /\ socks = <<>>
    /\ puts = <<>>
    /\ gets = <<>>

(* _get_requests *)

\* self.socket.accept(): a client connects, at most limit of them
Accept(limit) ==
    /\ pc_l = "accept"
    /\ nconn < limit
    /\ nconn' = nconn + 1
    /\ clientsocket' = nconn + 1
    /\ socks' = Append(socks, [events |-> <<"accept">>, sent |-> <<>>])
    /\ pc_l' = "recv"
    /\ UNCHANGED <<data, queue, pc_r, cur, request, response, exc, puts, gets>>

\* clientsocket.recv(4096) returns: the client has sent the bytes sent, or has
\* closed its side with nothing sent; then the test of data and the close
Recv(sent) ==
    /\ pc_l = "recv"
    /\ data' = SubSeq(sent, 1, IF Len(sent) < RecvSize THEN Len(sent) ELSE RecvSize)
    /\ IF data' # <<>>
       THEN /\ pc_l' = "put"
            /\ socks' = [socks EXCEPT ![clientsocket].events = Append(@, "recv")]
       ELSE /\ pc_l' = "accept"
            /\ socks' = [socks EXCEPT
                           ![clientsocket].events = @ \o <<"recv nothing", "listener close">>]
    /\ UNCHANGED <<nconn, clientsocket, queue, pc_r, cur, request, response, exc, puts, gets>>

\* put on a queue without a size
Put_unbounded ==
    /\ pc_l = "put"
    /\ queue' = Append(queue, [clientsocket |-> clientsocket, data |-> data])
    /\ socks' = [socks EXCEPT ![clientsocket].events = Append(@, "put")]
    /\ puts' = Append(puts, clientsocket)
    /\ pc_l' = "accept"
    /\ UNCHANGED <<nconn, clientsocket, data, pc_r, cur, request, response, exc, gets>>

\* queue.put((clientsocket, data)): blocks while the queue is full
Put ==
    /\ pc_l = "put"
    /\ Len(queue) < QueueSize
    /\ queue' = Append(queue, [clientsocket |-> clientsocket, data |-> data])
    /\ socks' = [socks EXCEPT ![clientsocket].events = Append(@, "put")]
    /\ puts' = Append(puts, clientsocket)
    /\ pc_l' = "accept"
    /\ UNCHANGED <<nconn, clientsocket, data, pc_r, cur, request, response, exc, gets>>

(* _process_requests *)

\* get from a queue that returns the newest entry
Get_newest ==
    /\ pc_r = "poll"
    /\ queue # <<>>
    /\ cur' = queue[Len(queue)]
    /\ queue' = SubSeq(queue, 1, Len(queue) - 1)
    /\ socks' = [socks EXCEPT ![queue[Len(queue)].clientsocket].events = Append(@, "get")]
    /\ gets' = Append(gets, queue[Len(queue)].clientsocket)
    /\ pc_r' = "try"
    /\ UNCHANGED <<pc_l, nconn, clientsocket, data, request, response, exc, puts>>

\* not queue.empty(), then clientsocket, data = queue.get()
Get ==
    /\ pc_r = "poll"
    /\ queue # <<>>
    /\ cur' = Head(queue)
    /\ queue' = Tail(queue)
    /\ socks' = [socks EXCEPT ![Head(queue).clientsocket].events = Append(@, "get")]
    /\ gets' = Append(gets, Head(queue).clientsocket)
    /\ pc_r' = "try"
    /\ UNCHANGED <<pc_l, nconn, clientsocket, data, request, response, exc, puts>>

\* the try, except HTTPBadRequest and else clauses: what they leave in
\* request and response, and the exception that is pending after them
TryResult ==
    LET else(parsed, routed) ==
            [request |-> [bound |-> TRUE, msg |-> parsed.value],
             response |-> IF routed.raised # NoException THEN response
                          ELSE [bound |-> TRUE, msg |-> routed.value],
             exc |-> routed.raised]
        try(parsed) ==
            IF parsed.raised = "HTTPBadRequest"
            THEN [request |-> request,
                  response |-> [bound |-> TRUE, msg |-> serve_error("Bad Request", FALSE)],
                  exc |-> NoException]
            ELSE IF parsed.raised # NoException
            THEN [request |-> request, response |-> response, exc |-> parsed.raised]
            ELSE else(parsed, Server_parse_request(parsed.value))
    IN  try(Message_parse_request(cur.data))

Try ==
    /\ pc_r = "try"
    /\ \E result \in {TryResult} :
         /\ request' = result.request
         /\ response' = result.response
         /\ exc' = result.exc
    /\ pc_r' = "send"
    /\ UNCHANGED <<pc_l, nconn, clientsocket, data, queue, cur, socks, puts, gets>>

\* finally: response.to_bytestring(), with response unbound if no iteration
\* has assigned it
SendResult ==
    IF ~response.bound THEN Raise("UnboundLocalError") ELSE to_bytestring(response.msg)

\* finally: clientsocket.send(response.to_bytestring()); an exception raised
\* here ends the responder with the connection still open
Send ==
    /\ pc_r = "send"
    /\ \E sent \in {SendResult} :
         /\ exc' = IF sent.raised # NoException THEN sent.raised ELSE exc
         /\ pc_r' = IF sent.raised # NoException THEN "dead" ELSE "close"
         /\ socks' = IF sent.raised # NoException THEN socks
                     ELSE [socks EXCEPT ![cur.clientsocket].sent = Append(@, sent.value),
                                        ![cur.clientsocket].events = Append(@, "send")]
    /\ UNCHANGED <<pc_l, nconn, clientsocket, data, queue, cur, request, response, puts, gets>>

\* finally: clientsocket.close(); then the pending exception, if any, leaves
\* the loop
Close ==
    /\ pc_r = "close"
    /\ socks' = [socks EXCEPT ![cur.clientsocket].events = Append(@, "close")]
    /\ pc_r' = IF exc # NoException THEN "dead" ELSE "poll"
    /\ UNCHANGED <<pc_l, nconn, clientsocket, data, queue, cur, request, response, exc,
                   puts, gets>>

\* two-process runs over PipelineRequests
Next ==
    \/ Accept(MaxConns)
    \/ \E sent \in PipelineRequests \cup {<<>>} : Recv(sent)
    \/ Put
    \/ Get
    \/ Try
    \/ Send
    \/ Close

Spec == Init /\ [][Next]_vars

\* one connection, every request of HandlerRequests
NextHandlers ==
    \/ Accept(1)
    \/ \E sent \in HandlerRequests \cup {<<>>} : Recv(sent)
    \/ Put
    \/ Get
    \/ Try
    \/ Send
    \/ Close

SpecHandlers == Init /\ [][NextHandlers]_vars

\* more connections than the queue holds
NextFlood ==
    \/ Accept(FloodConns)
    \/ \E sent \in FloodRequests : Recv(sent)
    \/ Put
    \/ Get
    \/ Try
    \/ Send
    \/ Close

SpecFlood == Init /\ [][NextFlood]_vars

\* the listener process is scheduled: a put that can return does return
FairFlood == SpecFlood /\ WF_vars(Put)

-----------------------------------------------------------------------------
(* Properties *)

Has(c, event) == \E i \in 1..Len(socks[c].events) : socks[c].events[i] = event

Count(c, event) == Cardinality({i \in 1..Len(socks[c].events) : socks[c].events[i] = event})

\* the request the responder holds, as parsed
CurParsed == Message_parse_request(cur.data)

CurMethod == DictGet(CurParsed.value.request_line, "Method")

CurURI == DictGet(CurParsed.value.request_line, "Request-URI")

\* the path the request URI names under the web root
CurPath == join(web_root, SliceFrom(unquote(CurURI), 1))

\* the try clause has just run on a request that parsed
Routed == pc_r = "send" /\ CurParsed.raised = NoException

Absent == <<-2>>

HeaderOf(msg, field) ==
    IF \E i \in 1..Len(msg.headers) : msg.headers[i][1] = field
    THEN DictGet(msg.headers, field)
    ELSE Absent

\* the bytes last sent on the responder's connection
Wire == LET sent == socks[cur.clientsocket].sent IN sent[Len(sent)]

IsPrefix(a, b) == Len(a) <= Len(b) /\ SubSeq(b, 1, Len(a)) = a

\* C1: every connection whose read returned at least one byte is dequeued,
\* answered and closed; the responder never ends with such a connection left
\* unanswered or open.
C1_NoneLeftUnanswered ==
    pc_r = "dead" =>
        \A c \in 1..nconn :
            Has(c, "recv") => (Has(c, "get") /\ Has(c, "send") /\ Has(c, "close"))

\* the ways C2 lists: too short, not UTF-8, a request line of fewer than three
\* tokens, a header line without ": "
Malformed(bytestring) ==
    \/ Len(bytestring) < 16
    \/ ~Utf8Valid(bytestring, 1)
    \/ LET lines == Split(Utf8Text(bytestring, 1), CRLF) IN
        \/ Len(Split(lines[1], S(" "))) < 3
        \/ \E i \in 2..(Len(lines) - 2) : Find(lines[i], S(": ")) = 0

\* C2: a malformed request never ends the responder, and the response sent
\* for it is the 400 Bad Request response.
C2_MalformedAnswered400 ==
    /\ pc_r = "dead" => ~Malformed(cur.data)
    /\ (pc_r = "close" /\ Malformed(cur.data)) =>
            /\ exc = NoException
            /\ IsPrefix(encode(S("HTTP/1.1 400 Bad Request") \o CRLF), Wire)

C4_GetFileOrNotFound ==
    (Routed /\ CurMethod = S("GET")) =>
        /\ isfile(CurPath) =>
                /\ exc = NoException
                /\ response.msg.status_line = S("HTTP/1.1 200 OK")
                /\ response.msg.body = read(CurPath)
        /\ (~isfile(CurPath) /\ ~isdir(CurPath)) =>
                /\ exc = NoException
                /\ response.msg.status_line = S("HTTP/1.1 404 Not Found")
                /\ response.msg.body
                     = encode(S("<html><body><h1>404 Not Found</h1></body></html>"))
                /\ HeaderOf(response.msg, S("Content-Type")) = S("text/html")

C4_Witness ==
    /\ Routed
    /\ CurMethod = S("GET")
    /\ CurURI = S("/a.txt")
    /\ response.msg.status_line = S("HTTP/1.1 200 OK")
    /\ response.msg.body = S("hello")

\* C5: a HEAD request routed through the server is answered with the status,
\* Content-Type and Content-Length of the answer to a GET of the same URI,
\* and with an empty body.
C5_HeadMatchesGet ==
    (Routed /\ CurMethod = S("HEAD")) =>
        /\ exc = NoException
        /\ response.bound
        /\ LET get == http_method_get(CurParsed.value, FALSE).value IN
            /\ response.msg.status_line = get.status_line
            /\ HeaderOf(response.msg, S("Content-Type")) = HeaderOf(get, S("Content-Type"))
            /\ HeaderOf(response.msg, S("Content-Length")) = HeaderOf(get, S("Content-Length"))
            /\ response.msg.body = <<>>

\* os.path.normpath: the names left when "." and empty components are
\* dropped and ".." takes back the name before it
RECURSIVE Normalized(_, _)
Normalized(parts, names) ==
    IF parts = <<>> THEN names
    ELSE IF Head(parts) = <<>> \/ Head(parts) = S(".") THEN Normalized(Tail(parts), names)
    ELSE IF Head(parts) = S("..")
         THEN Normalized(Tail(parts), SubSeq(names, 1, Len(names) - 1))
    ELSE Normalized(Tail(parts), Append(names, Head(parts)))

\* the normalized path is the web root or lies below it
UnderWebRoot(path) ==
    IsPrefix(Normalized(Split(web_root, S("/")), <<>>), Normalized(Split(path, S("/")), <<>>))

\* C6: a GET of a URI whose path, normalized, is not under the web root is
\* answered 404 Not Found.
C6_Contained ==
    (Routed /\ CurMethod = S("GET") /\ ~UnderWebRoot(CurPath)) =>
        /\ exc = NoException
        /\ response.msg.status_line = S("HTTP/1.1 404 Not Found")

\* the bytes after the first blank line
AfterBlankLine(bytes) == SubSeq(bytes, Find(bytes, CRLF \o CRLF) + 4, Len(bytes))

\* C7: the Content-Length of every response sent is the length of the body
\* of the message, and is the number of bytes that follow the blank line of
\* the bytes sent.
C7_ContentLength ==
    pc_r = "close" =>
        /\ HeaderOf(response.msg, S("Content-Length")) = Str(Len(response.msg.body))
        /\ HeaderOf(response.msg, S("Content-Length")) = Str(Len(AfterBlankLine(Wire)))

\* the listener waits in put on a full queue
Blocked == pc_l = "put" /\ Len(queue) = QueueSize

\* C8: the queue never holds more than QueueSize requests; put is not
\* enabled on a full queue; while the listener waits in put it accepts and
\* reads nothing and the queue changes by a get only; once the queue has
\* room the put is enabled, and it completes.
C8_Backpressure ==
    /\ [](Len(queue) <= QueueSize)
    /\ [](Blocked => ~ENABLED Put)
    /\ [][Blocked => /\ nconn' = nconn
                      /\ pc_l' = "put"
                      /\ puts' = puts
                      /\ queue' # queue => (queue' = Tail(queue) /\ gets' # gets)]_vars
    /\ []((pc_l = "put" /\ Len(queue) < QueueSize) => ENABLED Put)
    /\ (pc_l = "put" /\ Len(queue) < QueueSize) ~> (pc_l = "accept")

C8_Witness == Blocked /\ Len(gets) > 0

\* C9: the responder takes the requests in the order they were put, and
\* every request taken before another was answered and closed before the
\* other was taken.
C9_Fifo ==
    /\ IsPrefix(gets, puts)
    /\ \A j \in 1..Len(gets) : \A i \in 1..(j - 1) :
          /\ Has(gets[i], "send")
          /\ Has(gets[i], "close")

C9_Witness == Len(gets) >= 2 /\ pc_r = "try" /\ queue # <<>>

\* the place of the first event of that name, 0 if there is none
Place(c, event) ==
    IF Has(c, event)
    THEN Min({i \in 1..Len(socks[c].events) : socks[c].events[i] = event})
    ELSE 0

InQueue(c) == \E i \in 1..Len(queue) : queue[i].clientsocket = c

\* every close is the last event of its connection, and there is one at most
ClosedAtMostOnce(c) ==
    /\ Count(c, "close") + Count(c, "listener close") <= 1
    /\ \A i \in 1..Len(socks[c].events) :
          socks[c].events[i] \in {"close", "listener close"} => i = Len(socks[c].events)

\* C10: every connection is closed exactly once, by the listener if and only
\* if its read returned nothing, else by the responder after the get; none
\* is closed twice, closed in the queue, or sent to after its close.  A
\* connection the responder took is closed when the responder has ended.
C10_ClosedOnceByOwner ==
    \A c \in 1..nconn :
        /\ ClosedAtMostOnce(c)
        /\ Has(c, "listener close") <=> Has(c, "recv nothing")
        /\ Has(c, "recv nothing") => ~Has(c, "put")
        /\ Has(c, "put") => Has(c, "recv")
        /\ Has(c, "close") => (Has(c, "get") /\ Place(c, "get") < Place(c, "close"))
        /\ InQueue(c) => (~Has(c, "close") /\ ~Has(c, "listener close"))
        /\ (pc_r = "dead" /\ Has(c, "get")) => Count(c, "close") = 1

\* the part of C10 that says who may close and when
C10_Ownership ==
    \A c \in 1..nconn :
        /\ ClosedAtMostOnce(c)
        /\ Has(c, "listener close") <=> Has(c, "recv nothing")
        /\ Has(c, "recv nothing") => ~Has(c, "put")
        /\ Has(c, "put") => Has(c, "recv")
        /\ Has(c, "close") => (Has(c, "get") /\ Place(c, "get") < Place(c, "close"))
        /\ InQueue(c) => (~Has(c, "close") /\ ~Has(c, "listener close"))

-----------------------------------------------------------------------------
(* Directories *)

Contains(s, sub) == Find(s, sub) # 0

\* the body is a directory listing
IsListing(body) == IsPrefix(encode(S("<html><body><h1>Index of: ")), body)

\* C11: a GET of a directory is answered 200 OK with the bytes of its
\* index.html if that is a file, else with the bytes of its index.htm if
\* that is a file; the answer is a listing only if neither is; and the
\* listing of a directory without entries carries the notice that the
\* directory is empty.
C11_DirectoryIndex ==
    (Routed /\ CurMethod = S("GET") /\ isdir(CurPath)) =>
        /\ exc = NoException
        /\ response.msg.status_line = S("HTTP/1.1 200 OK")
        /\ isfile(join(CurPath, S("index.html"))) =>
                response.msg.body = read(join(CurPath, S("index.html")))
        /\ (~isfile(join(CurPath, S("index.html"))) /\ isfile(join(CurPath, S("index.htm")))) =>
                response.msg.body = read(join(CurPath, S("index.htm")))
        /\ IsListing(response.msg.body) <=>
                (~isfile(join(CurPath, S("index.html"))) /\ ~isfile(join(CurPath, S("index.htm"))))
        /\ listdir(CurPath) = <<>> =>
                /\ IsListing(response.msg.body)
                /\ Contains(response.msg.body, encode(S("<p>This directory is empty.</p>")))

\* the directory with both index files and another file is asked for
C11_Witness ==
    /\ Routed
    /\ CurMethod = S("GET")
    /\ CurURI = S("/both")
    /\ response.msg.body = S("html")

-----------------------------------------------------------------------------
(* Files without a MIME type *)

\* the responder holds a GET of a regular file whose type guess_type does
\* not know
CurNullMime ==
    /\ CurParsed.raised = NoException
    /\ CurMethod = S("GET")
    /\ isfile(CurPath)
    /\ guess_type(CurPath)[1] = None

\* C12: a GET of a regular file whose extension has no MIME type does not
\* end the responder: a 200 OK response is serialized and sent, and no
\* exception is pending when the connection is closed.
C12_NullMimeServed ==
    CurNullMime =>
        /\ pc_r # "dead"
        /\ pc_r = "close" =>
              /\ exc = NoException
              /\ IsPrefix(encode(S("HTTP/1.1 200 OK") \o CRLF), Wire)

-----------------------------------------------------------------------------
(* Direct calls of HTTP_Message(data), of create_response and to_bytestring, *)
(* and of http_method_get: the caller is not the responder loop.  A call     *)
(* leaves its argument in cur.data, what it built in request or response,    *)
(* the bytes it returned in data, the exception it raised in exc, and its    *)
(* name in pc_r.                                                             *)

\* the byte strings of length n over a set of bytes
RECURSIVE Words(_, _)
Words(alphabet, n) ==
    IF n = 0 THEN {<<>>}
    ELSE {Append(w, b) : w \in Words(alphabet, n - 1), b \in alphabet}

Prefixes(bytestring) == {SubSeq(bytestring, 1, n) : n \in 0..Len(bytestring)}

\* the longest of the byte strings enumerated in full
MaxShort == 2

\* G, space, CR, LF, colon and a byte that is not UTF-8
ShortAlphabet == {71, 32, 13, 10, 58, 255}

\* byte strings around the 16-byte minimum: every byte string of up to
\* MaxShort bytes, and every prefix of a request, of a request with a bad
\* request line and header, of bytes that are not UTF-8, and of many tokens
ShortInputs ==
    UNION {Words(ShortAlphabet, n) : n \in 0..MaxShort}
    \cup Prefixes(encode(S("GET / HTTP/1.1") \o CRLF \o CRLF))
    \cup Prefixes(encode(S("GET") \o CRLF \o S("Host") \o CRLF \o S("A:1") \o CRLF \o CRLF))
    \cup Prefixes([i \in 1..18 |-> 255])
    \cup Prefixes(encode(S("A B C D E F G H I")))

\* HTTP_Message(data) called with the data bytestring
Construct(bytestring) ==
    /\ pc_r = "poll"
    /\ cur' = [clientsocket |-> 0, data |-> bytestring]
    /\ \E parsed \in {Message_parse_request(bytestring)} :
         /\ request' = [bound |-> parsed.raised = NoException,
                        msg |-> IF parsed.raised = NoException THEN parsed.value
                                ELSE HTTP_Message]
         /\ exc' = parsed.raised
    /\ response' = [bound |-> FALSE, msg |-> HTTP_Message]
    /\ data' = <<>>
    /\ pc_r' = "HTTP_Message"
    /\ UNCHANGED <<pc_l, nconn, clientsocket, queue, socks, puts, gets>>

\* the most tokens of a request line sent
MaxTokens == 5

\* the most ": " of a header line sent
MaxSeparators == 3

\* the first k of some tokens, a space between every two
RECURSIVE Tokens(_)
Tokens(k) ==
    LET token == <<S("GET"), S("/index.html"), S("HTTP/1.1"), S("more"), S("tokens"),
                   S("and"), S("more")>>
    IN  IF k = 1 THEN token[1] ELSE Tokens(k - 1) \o S(" ") \o token[k]

\* a field name followed by k values, ": " before each
RECURSIVE Separated(_)
Separated(k) == IF k = 0 THEN S("Host") ELSE Separated(k - 1) \o S(": ") \o Str(k)

\* requests whose request line has one token or more, or empty tokens
RequestLineInputs ==
    {encode(Tokens(k) \o CRLF \o HostHeader \o CRLF) : k \in 1..MaxTokens}
    \cup {encode(Tokens(k) \o CRLF \o CRLF \o S("padding to sixteen")) : k \in 1..MaxTokens}
    \cup {encode(line \o CRLF \o HostHeader \o CRLF) :
            line \in {<<>>, S("GET  HTTP/1.1"), S("GET  / HTTP/1.1"), S(" GET / HTTP/1.1"),
                      S("GET / HTTP/1.1 "), S("GET /a b.txt HTTP/1.1"), S("  ")}}

\* requests whose header lines have no, one or more ": "
HeaderInputs ==
    {Request(S("GET"), S("/"), Separated(k) \o CRLF) : k \in 0..MaxSeparators}
    \cup {Request(S("GET"), S("/"), S("A: 1") \o CRLF \o Separated(k) \o CRLF) :
            k \in 0..MaxSeparators}
    \cup {Request(S("GET"), S("/"), line \o CRLF) :
            line \in {S("Host:h"), S(": "), S(": x"), S("x: "), S("Host : h"), S("Host:  h"),
                      S("A: 1") \o CRLF \o S("A: 2"), S("A: :"), S("A: : b")}}

ConstructInputs == ShortInputs \cup RequestLineInputs \cup HeaderInputs

\* the headers a caller sets before create_response: none, the Content-Type
\* of serve_error, the None of serve_file, a value with ": " in it
CallerHeaders ==
    {<<>>,
     << <<S("Content-Type"), S("text/html")>> >>,
     << <<S("Content-Type"), None>> >>,
     << <<S("Content-Type"), S("text/html")>>, <<S("X-Note"), S("a: b")>> >>}

\* the bodies a caller sets: none, text, text of two lines, text that ends
\* a line, bytes that are not UTF-8
CallerBodies ==
    {<<>>, encode(S("hello")), encode(S("a") \o CRLF \o S("b")), encode(S("a") \o CRLF),
     <<31, 139, 8>>}

\* a caller creates a message, sets headers and body, and calls
\* create_response(status) and to_bytestring()
Respond(headers, body, status) ==
    /\ pc_r = "poll"
    /\ \E created \in {create_response([HTTP_Message EXCEPT !.headers = headers,
                                                          !.body = body], status)} :
         /\ response' = [bound |-> TRUE, msg |-> created]
         /\ \E bytestring \in {to_bytestring(created)} :
              /\ exc' = bytestring.raised
              /\ data' = IF bytestring.raised = NoException THEN bytestring.value ELSE <<>>
    /\ cur' = [clientsocket |-> 0, data |-> <<>>]
    /\ request' = [bound |-> FALSE, msg |-> HTTP_Message]
    /\ pc_r' = "to_bytestring"
    /\ UNCHANGED <<pc_l, nconn, clientsocket, queue, socks, puts, gets>>

\* http_method_get(HTTP_Message(bytestring), True) called
HeadGet(bytestring) ==
    /\ pc_r = "poll"
    /\ Message_parse_request(bytestring).raised = NoException
    /\ cur' = [clientsocket |-> 0, data |-> bytestring]
    /\ request' = [bound |-> TRUE, msg |-> Message_parse_request(bytestring).value]
    /\ \E returned \in {http_method_get(Message_parse_request(bytestring).value, TRUE)} :
         /\ response' = [bound |-> returned.raised = NoException,
                         msg |-> IF returned.raised = NoException THEN returned.value
                                 ELSE HTTP_Message]
         /\ exc' = returned.raised
    /\ data' = <<>>
    /\ pc_r' = "http_method_get"
    /\ UNCHANGED <<pc_l, nconn, clientsocket, queue, socks, puts, gets>>

\* one call
NextCalls ==
    \/ \E bytestring \in ConstructInputs : Construct(bytestring)
    \/ \E headers \in CallerHeaders, body \in CallerBodies,
          status \in {"OK", "Bad Request", "Not Found", "Not Implemented"} :
            Respond(headers, body, status)
    \/ \E method \in {S("GET"), S("HEAD")}, uri \in SentURIs :
            HeadGet(Request(method, uri, HostHeader))

SpecCalls == Init /\ [][NextCalls]_vars

\* C13: HTTP_Message(data) of fewer than 16 bytes, none included, raises
\* HTTPBadRequest and no field of the request is set.
C13_ShortRejected ==
    (pc_r = "HTTP_Message" /\ Len(cur.data) < 16) =>
        /\ exc = "HTTPBadRequest"
        /\ ~request.bound

\* fifteen bytes that are not UTF-8 were rejected for their length
C13_Witness ==
    /\ pc_r = "HTTP_Message"
    /\ cur.data = [i \in 1..15 |-> 255]
    /\ exc = "HTTPBadRequest"

\* the bytes of a message split the way parse_request splits a request: the
\* lines between CRLF, the first the start line, the last the body, those
\* between the first and the last two the "field: value" headers
Resplit(bytestring) ==
    LET text == decode(bytestring)
        lines == Split(text.value, CRLF)
        headers == ParseHeaders(SubSeq(lines, 2, Len(lines) - 2), <<>>)
    IN  IF text.raised # NoException THEN text
        ELSE IF headers.raised # NoException THEN headers
        ELSE Return([start_line |-> lines[1], headers |-> headers.value,
                     body |-> lines[Len(lines)]])

\* C14: the bytes to_bytestring returns for a message create_response built,
\* split again the way parse_request splits, give back the status line, the
\* headers and the body of the message.
C14_RoundTrip ==
    pc_r = "to_bytestring" =>
        /\ exc = NoException
        /\ Resplit(data).raised = NoException
        /\ Resplit(data).value.start_line = response.msg.status_line
        /\ Resplit(data).value.headers = response.msg.headers
        /\ encode(Resplit(data).value.body) = response.msg.body

\* the number of tokens of the request line of decodable bytes
RequestLineTokens(bytestring) ==
    Len(Split(Split(Utf8Text(bytestring, 1), CRLF)[1], S(" ")))

\* C15: HTTP_Message(data) builds a request only from a request line of
\* exactly three tokens; with fewer or more it raises HTTPBadRequest.
C15_ExactlyThreeTokens ==
    (pc_r = "HTTP_Message" /\ Len(cur.data) >= 16 /\ Utf8Valid(cur.data, 1)) =>
        /\ request.bound => RequestLineTokens(cur.data) = 3
        /\ RequestLineTokens(cur.data) # 3 => exc = "HTTPBadRequest"

\* the header lines of decodable bytes: the lines but the first and the
\* last two
HeaderLinesOf(bytestring) ==
    LET lines == Split(Utf8Text(bytestring, 1), CRLF) IN SubSeq(lines, 2, Len(lines) - 2)

\* the text before the first ": " of a line, and the text after it
FieldOf(line) == SubSeq(line, 1, Find(line, S(": ")) - 1)
ValueOf(line) == SubSeq(line, Find(line, S(": ")) + 2, Len(line))

\* C16: HTTP_Message(data) of a request whose header lines all hold ": "
\* builds the request, and every header line is stored under the text before
\* its first ": " with all the text after it as the value, a later line of
\* the same field replacing an earlier one.
C16_SplitAtFirstSeparator ==
    (/\ pc_r = "HTTP_Message"
     /\ Len(cur.data) >= 16
     /\ Utf8Valid(cur.data, 1)
     /\ RequestLineTokens(cur.data) >= 3
     /\ \A i \in 1..Len(HeaderLinesOf(cur.data)) :
            Find(HeaderLinesOf(cur.data)[i], S(": ")) # 0) =>
        /\ exc = NoException
        /\ request.bound
        /\ LET lines == HeaderLinesOf(cur.data) IN
           \A i \in 1..Len(lines) :
              (\A j \in (i + 1)..Len(lines) : FieldOf(lines[j]) # FieldOf(lines[i])) =>
                    HeaderOf(request.msg, FieldOf(lines[i])) = ValueOf(lines[i])

\* C17: http_method_get called with method_head True on a URI that names a
\* file or a directory returns 200 OK with no body, Content-Length 0, and
\* the Content-Type of the message it returns with method_head False.
C17_HeadDescribesGet ==
    (pc_r = "http_method_get" /\ (isfile(CurPath) \/ isdir(CurPath))) =>
        /\ exc = NoException
        /\ response.msg.status_line = S("HTTP/1.1 200 OK")
        /\ response.msg.body = <<>>
        /\ HeaderOf(response.msg, S("Content-Length")) = S("0")
        /\ HeaderOf(response.msg, S("Content-Type"))
             = HeaderOf(http_method_get(request.msg, FALSE).value, S("Content-Type"))

-----------------------------------------------------------------------------
(* A client that connects and sends nothing *)

\* the listener waits in recv: the client has neither sent nor closed
Reading == pc_l = "recv"

\* the responder is alive and the next step of its loop can be taken
ResponderCanStep ==
    \/ pc_r = "poll" /\ ENABLED Get
    \/ pc_r = "try" /\ ENABLED Try
    \/ pc_r = "send" /\ ENABLED Send
    \/ pc_r = "close" /\ ENABLED Close

\* while the listener waits in recv it accepts no connection and puts
\* nothing, and it leaves recv only when the client has sent or closed
ListenerStalls ==
    /\ [][(Reading /\ pc_l' = "recv") =>
            /\ nconn' = nconn
            /\ clientsocket' = clientsocket
            /\ puts' = puts
            /\ socks'[clientsocket].events = <<"accept">>
            /\ Len(queue') <= Len(queue)]_vars
    /\ [][(Reading /\ pc_l' # "recv") =>
            /\ nconn' = nconn
            /\ puts' = puts
            /\ \/ Has(clientsocket, "recv")'
               \/ Has(clientsocket, "recv nothing")']_vars

\* a responder that has not ended is never held up by the waiting listener
LiveResponderCanStep == [](Reading /\ pc_r # "dead" /\ queue # <<>> => ResponderCanStep)

\* C18: while the listener waits in recv on a client that has sent nothing,
\* it accepts no connection and puts nothing, and the responder can still
\* get and answer the requests that are in the queue.
C18_SilentClientStalls ==
    /\ ListenerStalls
    /\ [](Reading /\ queue # <<>> => ResponderCanStep)

-----------------------------------------------------------------------------
(* The response sent on a connection *)

\* what one iteration of the loop computes from the bytes it dequeued: the
\* except clause's 400 message, or what self.parse_request returns for the
\* parsed request; an exception other than HTTPBadRequest computes nothing
ComputedFrom(bytestring) ==
    LET routed(parsed) ==
            IF parsed.raised = "HTTPBadRequest" THEN Return(serve_error("Bad Request", FALSE))
            ELSE IF parsed.raised # NoException THEN Raise(parsed.raised)
            ELSE Server_parse_request(parsed.value)
    IN  routed(Message_parse_request(bytestring))

\* C19: the bytes the responder has just sent on a connection are the
\* serialization of the response this iteration computed from the bytes
\* dequeued with that connection, never a response of an earlier iteration.
C19_OwnResponse ==
    pc_r = "close" =>
        \E computed \in {ComputedFrom(cur.data)} :
            /\ computed.raised = NoException
            /\ Wire = to_bytestring(computed.value).value

====
